---- MODULE Spec2Model ----
(***************************************************************************)
(* Model of the k8snp node_pool resource (internal/provider/               *)
(* node_pool_resource.go): Create waits for ready nodes, Delete cordons    *)
(* every node of the pool and then drains them one by one.                 *)
(*                                                                         *)
(* Time is counted in seconds (one tick = 1s); `now` is the time elapsed   *)
(* since the provider received the current request.                        *)
(***************************************************************************)
EXTENDS Integers, Sequences, FiniteSets, TLC

(* ------------------------------ bounds -------------------------------- *)
\* largest min_ready_nodes a plan asks for
MaxMinReady == 2
\* largest ready_timeout, in seconds
MaxReadyTimeout == 2
\* largest drain_wait, in seconds
MaxDrainWait == 2
\* longest time one cluster call (list nodes, drain) takes, in seconds
MaxLatency == 1
\* longest time time.Sleep oversleeps, in seconds
MaxOvershoot == 1
\* largest drain_timeout, in seconds
MaxDrainTimeout == 1
\* longest node list handed to countReadyNodes
MaxCountNodes == 3
\* most pods on the node that is drained
MaxPods == 2
\* largest minimum or maximum a duration validator is built with, in seconds
MaxLimit == 1
\* largest number written in a duration string
MaxNumber == 2

(* --------------------------- program constants ------------------------ *)
\* time.Sleep(time.Second) of the readiness loop, in seconds
PollInterval == 1

\* the nodes of the cluster
Nodes == {"n1", "n2", "n3"}

\* default of node_selector_key
SelectorKey == "cloud.google.com/gke-nodepool"

\* values the pool label of a node takes
PoolNames == {"pool-a", "pool-b"}

\* node.Status.Conditions of a node, as the kubelet reports it
ConditionLists ==
    { <<>>,
      << [Type |-> "Ready", Status |-> "True"] >>,
      << [Type |-> "MemoryPressure", Status |-> "False"],
         [Type |-> "Ready", Status |-> "False"] >> }

VARIABLES
    labels,         \* cluster: node -> value of its SelectorKey label
    conds,          \* cluster: node -> Status.Conditions
    unschedulable,  \* cluster: nodes with Spec.Unschedulable set
    op,             \* request being served: "idle", "Create" or "Delete"
    pc,             \* position in the handler
    data,           \* NodePoolResourceModel read from the request
    now,            \* seconds since the request was received
    deadline,       \* Create: deadline of the readiness loop
    nodes,          \* Delete: names of nodeList.Items, in listing order
    idx,            \* Delete: index of the range loop
    log,            \* cluster calls and sleeps of this request, in order
    diags,          \* resp.Diagnostics
    respState,      \* resp.State: <<>> when not set, <<data>> when set
    ctx,            \* the request's context.Context: cancelled or not
    peer,           \* a second request: suspended, or an earlier one's outcome
    arg,            \* input of a function applied on its own; the stored state
    ret             \* its result: <<>> before the call, <<result>> after

cluster == <<labels, conds, unschedulable>>
\* what no step of a handler writes
frame == <<ctx, peer, arg, ret>>
vars == <<labels, conds, unschedulable, op, pc, data, now, deadline, nodes,
          idx, log, diags, respState, ctx, peer, arg, ret>>

(* ------------------------------ helpers ------------------------------- *)
\* types.String null value of an optional attribute
NullString == "<null>"

\* time.ParseDuration on "<n>s"; a duration string is kept as [n, unit]
ParseDuration(s) ==
    IF s.unit = "s" THEN s.n
    ELSE IF s.unit = "m" THEN 60 * s.n
    ELSE 0

Seconds(n) == [n |-> n, unit |-> "s"]

\* all orderings of a finite set, as sequences
Perms(S) ==
    { f \in [1..Cardinality(S) -> S] :
        \A i, j \in 1..Cardinality(S) : i # j => f[i] # f[j] }

\* types.String unknown value
UnknownString == "<unknown>"

\* labelValue of Create
LabelValue(d) ==
    IF d.node_selector_value # UnknownString /\ d.node_selector_value # NullString
    THEN d.node_selector_value
    ELSE d.node_pool_name

\* labelValue of a Delete that leaves node_selector_value out
DeleteLabelValue_NameOnly(d) == d.node_pool_name

\* labelValue of Delete
DeleteLabelValue(d) ==
    IF d.node_selector_value # UnknownString /\ d.node_selector_value # NullString
    THEN d.node_selector_value
    ELSE d.node_pool_name

\* the LabelSelector string "%s=%s", kept as its three parts
LabelSelector(labelKey, labelValue) == <<labelKey, "=", labelValue>>

\* what the API server can return for LabelSelector "key=value": the matching
\* nodes (name and conditions), in some order
ListNodes(labelKey, labelValue) ==
    LET sel == LabelSelector(labelKey, labelValue)
        match == { n \in Nodes : sel[1] = SelectorKey /\ labels[n] = sel[3] }
    IN  { [i \in 1..Len(p) |-> [Name |-> p[i], Conditions |-> conds[p[i]]]] :
            p \in Perms(match) }

\* the inner loop counting every Ready entry that is not False
RECURSIVE ReadyOf_NotFalse(_, _)
ReadyOf_NotFalse(cs, i) ==
    IF i > Len(cs) THEN 0
    ELSE IF cs[i].Type = "Ready"
         THEN (IF cs[i].Status # "False" THEN 1 ELSE 0)
         ELSE ReadyOf_NotFalse(cs, i + 1)

\* the inner loop of countReadyNodes over one node's conditions: 1 when the
\* first entry of type Ready has status True
RECURSIVE ReadyOf(_, _)
ReadyOf(cs, i) ==
    IF i > Len(cs) THEN 0
    ELSE IF cs[i].Type = "Ready"
         THEN (IF cs[i].Status = "True" THEN 1 ELSE 0)
         ELSE ReadyOf(cs, i + 1)

RECURSIVE CountFrom(_, _)
CountFrom(ns, i) ==
    IF i > Len(ns) THEN 0
    ELSE ReadyOf(ns[i].Conditions, 1) + CountFrom(ns, i + 1)

countReadyNodes(ns) == CountFrom(ns, 1)

\* one entry of resp.Diagnostics: the summary, the format string of the
\* detail and its arguments (%d arguments in ints, %s arguments in strs)
ErrorDiag(summary, fmt, ints, strs) ==
    [summary |-> summary, fmt |-> fmt, ints |-> ints, strs |-> strs]

\* one entry of the log
Event(ev, node, ok, n) ==
    [ev |-> ev, node |-> node, ok |-> ok, at |-> now, n |-> n]

\* time.Sleep that returns at once
Sleep_None(d) == { now }

\* time.Sleep(d) returns after at least d
Sleep(d) == { now + d + j : j \in 0..MaxOvershoot }

(* ------------------------------- Init --------------------------------- *)
NoData ==
    [node_pool_name |-> "", node_selector_key |-> "", node_selector_value |-> NullString,
     min_ready_nodes |-> 0, ready_timeout |-> Seconds(0),
     drain_timeout |-> Seconds(0), drain_wait |-> Seconds(0)]

Idle ==
    /\ op = "idle"
    /\ pc = "idle"
    /\ data = NoData
    /\ now = 0
    /\ deadline = 0
    /\ nodes = <<>>
    /\ idx = 0
    /\ log = <<>>
    /\ diags = <<>>
    /\ respState = <<>>

\* a context that is not cancelled
Background == [cancelled |-> FALSE, at |-> 0, seen |-> 0]

\* no second request
NoPeer == <<>>

Init ==
    /\ labels \in [Nodes -> PoolNames]
    /\ conds = [n \in Nodes |-> <<>>]
    /\ unschedulable = {}
    /\ Idle
    /\ ctx = Background
    /\ peer = NoPeer
    /\ arg = <<>>
    /\ ret = <<>>

(* ------------------------------ Create -------------------------------- *)
\* plans the framework hands to Create: validated, defaults filled in
CreatePlans ==
    { [node_pool_name |-> "pool-a", node_selector_key |-> SelectorKey,
       node_selector_value |-> NullString,
       min_ready_nodes |-> m, ready_timeout |-> Seconds(t),
       drain_timeout |-> Seconds(300), drain_wait |-> Seconds(60)] :
        m \in 1..MaxMinReady, t \in 0..MaxReadyTimeout }

\* Create up to the loop: read the plan, compute the deadline
CreateBegin ==
    /\ op = "idle"
    /\ \E d \in CreatePlans :
        /\ data' = d
        /\ deadline' = now + ParseDuration(d.ready_timeout)
    /\ op' = "Create"
    /\ pc' = "c_loop"
    /\ UNCHANGED <<frame, cluster, now, nodes, idx, log, diags, respState>>

\* the loop condition with the deadline itself still inside the loop
LoopCond_Inclusive == now <= deadline

\* the loop condition time.Now().Before(deadline)
LoopCond == now < deadline

\* the comparison with min_ready_nodes the wrong way round
Enough_Flipped(numReadyNodes) == numReadyNodes <= data.min_ready_nodes

\* the value the loop compares with min_ready_nodes
Enough(numReadyNodes) == numReadyNodes >= data.min_ready_nodes

\* a failed listNodes that is retried after the sleep instead of returned
CreateListError_Retry ==
    /\ op = "Create" /\ pc = "c_loop"
    /\ now < deadline
    /\ \E lat \in 0..MaxLatency : now' = now + lat
    /\ log' = Append(log, Event("list", "", FALSE, 0))
    /\ pc' = "c_sleep"
    /\ UNCHANGED <<frame, cluster, op, data, deadline, nodes, idx, diags, respState>>

\* a loop iteration whose listNodes fails
CreateListError ==
    /\ op = "Create" /\ pc = "c_loop"
    /\ LoopCond
    /\ \E lat \in 0..MaxLatency : now' = now + lat
    /\ log' = Append(log, Event("list", "", FALSE, 0))
    /\ diags' = Append(diags,
            ErrorDiag("Error creating safe node pool",
                "Could not create safe node pool, unexpected error listing current nodes in pool %s: %s",
                <<>>, <<data.node_pool_name, "failed to list nodes">>))
    /\ pc' = "done"
    /\ UNCHANGED <<frame, cluster, op, data, deadline, nodes, idx, respState>>

\* a loop iteration whose listNodes succeeds: count, then return or sleep
CreateListOk ==
    /\ op = "Create" /\ pc = "c_loop"
    /\ LoopCond
    /\ ~ctx.cancelled
    /\ \E l \in ListNodes(data.node_selector_key, LabelValue(data)),
          lat \in 0..MaxLatency :
        LET numReadyNodes == countReadyNodes(l) IN
        /\ now' = now + lat
        /\ log' = Append(log, Event("list", "", TRUE, numReadyNodes))
        /\ IF Enough(numReadyNodes)
           THEN /\ respState' = <<data>>
                /\ pc' = "done"
           ELSE /\ respState' = respState
                /\ pc' = "c_sleep"
    /\ UNCHANGED <<frame, cluster, op, data, deadline, nodes, idx, diags>>

\* time.Sleep(time.Second) at the end of an iteration
CreateSleep ==
    /\ op = "Create" /\ pc = "c_sleep"
    /\ now' \in Sleep(PollInterval)
    /\ log' = Append(log, Event("sleep", "", TRUE, PollInterval))
    /\ pc' = "c_loop"
    /\ UNCHANGED <<frame, cluster, op, data, deadline, nodes, idx, diags, respState>>

\* a loop whose end is never taken
CreateTimedOut_Never ==
    /\ op = "Create" /\ pc = "c_loop"
    /\ FALSE
    /\ UNCHANGED vars

\* the loop ends with the error and without saving the state
CreateTimedOut_NoState ==
    /\ op = "Create" /\ pc = "c_loop"
    /\ ~LoopCond
    /\ diags' = Append(diags,
            ErrorDiag("Error waiting for nodes to be ready",
                "Could not find %d ready nodes in node pool %s in the specified timeout",
                <<data.min_ready_nodes>>, <<data.node_pool_name>>))
    /\ pc' = "done"
    /\ UNCHANGED <<frame, cluster, op, data, now, deadline, nodes, idx, log, respState>>

\* the loop ends: the error of lines 211-214, then the state is saved
CreateTimedOut ==
    /\ op = "Create" /\ pc = "c_loop"
    /\ ~LoopCond
    /\ diags' = Append(diags,
            ErrorDiag("Error waiting for nodes to be ready",
                "Could not find %d ready nodes in node pool %s in the specified timeout",
                <<data.min_ready_nodes>>, <<data.node_pool_name>>))
    /\ respState' = <<data>>
    /\ pc' = "done"
    /\ UNCHANGED <<frame, cluster, op, data, now, deadline, nodes, idx, log>>

\* the kubelet of a node reports another condition list while Create waits
\* (Delete never reads the conditions, so changes outside Create are left out)
NodeConditionChange ==
    /\ op = "Create" /\ pc \in {"c_loop", "c_sleep"}
    /\ \E n \in Nodes, c \in ConditionLists :
        /\ c # conds[n]
        /\ conds' = [conds EXCEPT ![n] = c]
    /\ UNCHANGED <<frame, labels, unschedulable, op, pc, data, now, deadline, nodes,
                   idx, log, diags, respState>>

(* ------------------------------ Delete -------------------------------- *)
\* prior states the framework hands to Delete: what an earlier Create or
\* Update saved
\* (drain_timeout is any duration >= 0, MinDuration(0) of the schema)
DeleteStates ==
    { [node_pool_name |-> "pool-a", node_selector_key |-> SelectorKey,
       node_selector_value |-> NullString,
       min_ready_nodes |-> 1, ready_timeout |-> Seconds(300),
       drain_timeout |-> Seconds(t), drain_wait |-> Seconds(w)] :
        w \in 0..MaxDrainWait, t \in 0..MaxDrainTimeout }

\* Delete up to the listNodes call: read the prior state
DeleteBegin ==
    /\ op = "idle"
    /\ \E d \in DeleteStates : data' = d
    /\ op' = "Delete"
    /\ pc' = "d_list"
    /\ UNCHANGED <<frame, cluster, now, deadline, nodes, idx, log, diags, respState>>

\* the range loops stopping one node short
LoopNext_OffByOne(phase, i, l) ==
    IF i < Len(l) THEN <<phase, i>>
    ELSE IF phase = "d_cordon" /\ Len(l) >= 1 THEN <<"d_drain", 1>>
    ELSE <<"done", 0>>

\* where the two range loops of Delete go when the loop `phase` reaches
\* index i of listing l: the next node of the loop, the first node of the
\* drain loop after the cordon loop, the end of the handler after the drain
\* loop
LoopNext(phase, i, l) ==
    IF i <= Len(l) THEN <<phase, i>>
    ELSE IF phase = "d_cordon" /\ Len(l) >= 1 THEN <<"d_drain", 1>>
    ELSE <<"done", 0>>

\* listNodes of Delete fails
DeleteListError ==
    /\ op = "Delete" /\ pc = "d_list"
    /\ log' = Append(log, Event("list", "", FALSE, 0))
    /\ diags' = Append(diags,
            ErrorDiag("Error deleting safe node pool",
                "Could not delete safe node pool, unexpected error listing nodes in pool %s: %s",
                <<>>, <<data.node_pool_name, "failed to list nodes">>))
    /\ pc' = "done"
    /\ UNCHANGED <<frame, cluster, op, data, now, deadline, nodes, idx, respState>>

\* listNodes of Delete succeeds: the handler keeps nodeList.Items
DeleteListOk ==
    /\ op = "Delete" /\ pc = "d_list"
    /\ ~ctx.cancelled
    /\ \E l \in ListNodes(data.node_selector_key, DeleteLabelValue(data)) :
        /\ nodes' = [i \in 1..Len(l) |-> l[i].Name]
        /\ log' = Append(log, Event("list", "", TRUE, Len(l)))
        /\ pc' = LoopNext("d_cordon", 1, l)[1]
        /\ idx' = LoopNext("d_cordon", 1, l)[2]
    /\ UNCHANGED <<frame, cluster, op, data, now, deadline, diags, respState>>

\* a cordon that flips Spec.Unschedulable instead of setting it
RunCordonOrUncordon_Toggle(node, desired) ==
    IF node \in unschedulable THEN unschedulable \ {node} ELSE unschedulable \cup {node}

\* drain.RunCordonOrUncordon(drainer, node, desired) on the cluster: the
\* node's Spec.Unschedulable becomes `desired`
RunCordonOrUncordon(node, desired) ==
    IF desired THEN unschedulable \cup {node} ELSE unschedulable \ {node}

\* the cordon loop: the cordon of nodes[idx] succeeds (with a cancelled
\* context only when the node needs no update)
DeleteCordonOk ==
    /\ op = "Delete" /\ pc = "d_cordon"
    /\ ~ctx.cancelled \/ nodes[idx] \in unschedulable
    /\ unschedulable' = RunCordonOrUncordon(nodes[idx], TRUE)
    /\ log' = Append(log, Event("cordon", nodes[idx], TRUE, 0))
    /\ pc' = LoopNext("d_cordon", idx + 1, nodes)[1]
    /\ idx' = LoopNext("d_cordon", idx + 1, nodes)[2]
    /\ UNCHANGED <<frame, labels, conds, op, data, now, deadline, nodes, diags, respState>>

\* a failed cordon that is tried again on the same node
DeleteCordonError_Retry ==
    /\ op = "Delete" /\ pc = "d_cordon"
    /\ Len(SelectSeq(log, LAMBDA e : e.ev = "cordon" /\ ~e.ok)) < 2
    /\ log' = Append(log, Event("cordon", nodes[idx], FALSE, 0))
    /\ UNCHANGED <<frame, cluster, op, pc, data, now, deadline, nodes, idx, diags, respState>>

\* a failed cordon that is reported but not returned from
DeleteCordonError_NoReturn ==
    /\ op = "Delete" /\ pc = "d_cordon"
    /\ log' = Append(log, Event("cordon", nodes[idx], FALSE, 0))
    /\ diags' = Append(diags,
            ErrorDiag("Error deleting safe node pool",
                "Could not delete safe node pool, unexpected error cordoning node %s: %s",
                <<>>, <<nodes[idx], "cordon error">>))
    /\ pc' = IF idx < Len(nodes) THEN "d_cordon" ELSE "d_drain"
    /\ idx' = IF idx < Len(nodes) THEN idx + 1 ELSE 1
    /\ UNCHANGED <<frame, cluster, op, data, now, deadline, nodes, respState>>

\* the cordon loop: the cordon of nodes[idx] fails (a node that is already
\* unschedulable needs no update, so nothing is sent that could fail)
DeleteCordonError ==
    /\ op = "Delete" /\ pc = "d_cordon"
    /\ nodes[idx] \notin unschedulable
    /\ log' = Append(log, Event("cordon", nodes[idx], FALSE, 0))
    /\ diags' = Append(diags,
            ErrorDiag("Error deleting safe node pool",
                "Could not delete safe node pool, unexpected error cordoning node %s: %s",
                <<>>, <<nodes[idx], "cordon error">>))
    /\ pc' = "done"
    /\ UNCHANGED <<frame, cluster, op, data, now, deadline, nodes, idx, respState>>

\* how long RunNodeDrain can take with drain.Helper{Timeout: timeout}: the
\* helper gives up after Timeout, and a Timeout of 0 means no limit
DrainDurations(timeout) ==
    IF timeout = 0 THEN 0..MaxLatency
    ELSE { d \in 0..MaxLatency : d <= timeout }

\* a drain loop that takes its node from what carries the pool label now
\* instead of from the listing
DeleteDrainStart_FreshListing ==
    /\ op = "Delete" /\ pc = "d_drain"
    /\ \E n \in Nodes :
        /\ labels[n] = DeleteLabelValue(data)
        /\ \A i \in DOMAIN log : log[i].ev = "drain_start" => log[i].node # n
        /\ log' = Append(log, Event("drain_start", n, TRUE, 0))
    /\ pc' = "d_draining"
    /\ UNCHANGED <<frame, cluster, op, data, now, deadline, nodes, idx, diags, respState>>

\* the drain loop: drain.RunNodeDrain(drainer, node.Name) is called
DeleteDrainStart ==
    /\ op = "Delete" /\ pc = "d_drain"
    /\ log' = Append(log, Event("drain_start", nodes[idx], TRUE, 0))
    /\ pc' = "d_draining"
    /\ UNCHANGED <<frame, cluster, op, data, now, deadline, nodes, idx, diags, respState>>

\* a drain loop that leaves out the pause after the last node
DeleteDrainOk_NoLastPause ==
    /\ op = "Delete" /\ pc = "d_draining"
    /\ \E dur \in DrainDurations(ParseDuration(data.drain_timeout)) :
        /\ now' = now + dur
        /\ log' = Append(log, [Event("drain_end", nodes[idx], TRUE, 0) EXCEPT !.at = now + dur])
    /\ pc' = IF idx = Len(nodes) THEN "done" ELSE "d_sleep"
    /\ UNCHANGED <<frame, cluster, op, data, deadline, nodes, idx, diags, respState>>

\* RunNodeDrain returns nil after some time (never when the context was
\* cancelled before the call)
DeleteDrainOk ==
    /\ op = "Delete" /\ pc = "d_draining"
    /\ ctx.cancelled => ctx.seen >= Len(log)
    /\ \E dur \in DrainDurations(ParseDuration(data.drain_timeout)) :
        /\ now' = now + dur
        /\ log' = Append(log, [Event("drain_end", nodes[idx], TRUE, 0) EXCEPT !.at = now + dur])
    /\ pc' = "d_sleep"
    /\ UNCHANGED <<frame, cluster, op, data, deadline, nodes, idx, diags, respState>>

\* a failed drain reported with the message of the cordon loop
DeleteDrainError_CordonText ==
    /\ op = "Delete" /\ pc = "d_draining"
    /\ \E dur \in 0..MaxLatency :
        /\ now' = now + dur
        /\ log' = Append(log, [Event("drain_end", nodes[idx], FALSE, 0) EXCEPT !.at = now + dur])
    /\ diags' = Append(diags,
            ErrorDiag("Error deleting safe node pool",
                "Could not delete safe node pool, unexpected error cordoning node %s: %s",
                <<>>, <<nodes[idx], "drain error">>))
    /\ pc' = "done"
    /\ UNCHANGED <<frame, cluster, op, data, deadline, nodes, idx, respState>>

\* a failed drain that is reported but not returned from
DeleteDrainError_NoReturn ==
    /\ op = "Delete" /\ pc = "d_draining"
    /\ \E dur \in 0..MaxLatency :
        /\ now' = now + dur
        /\ log' = Append(log, [Event("drain_end", nodes[idx], FALSE, 0) EXCEPT !.at = now + dur])
    /\ diags' = Append(diags,
            ErrorDiag("Error deleting safe node pool",
                "Could not delete safe node pool, unexpected error draining node %s: %s",
                <<>>, <<nodes[idx], "drain error">>))
    /\ pc' = "d_sleep"
    /\ UNCHANGED <<frame, cluster, op, data, deadline, nodes, idx, respState>>

\* RunNodeDrain returns an error after some time
DeleteDrainError ==
    /\ op = "Delete" /\ pc = "d_draining"
    /\ \E dur \in DrainDurations(ParseDuration(data.drain_timeout)) :
        /\ now' = now + dur
        /\ log' = Append(log, [Event("drain_end", nodes[idx], FALSE, 0) EXCEPT !.at = now + dur])
    /\ diags' = Append(diags,
            ErrorDiag("Error deleting safe node pool",
                "Could not delete safe node pool, unexpected error draining node %s: %s",
                <<>>, <<nodes[idx], "drain error">>))
    /\ pc' = "done"
    /\ UNCHANGED <<frame, cluster, op, data, deadline, nodes, idx, respState>>

\* time.Sleep(drainWait) after a drained node, then the next node
DeleteSleep ==
    /\ op = "Delete" /\ pc = "d_sleep"
    /\ now' \in Sleep(ParseDuration(data.drain_wait))
    /\ log' = Append(log, Event("sleep", nodes[idx], TRUE, ParseDuration(data.drain_wait)))
    /\ pc' = LoopNext("d_drain", idx + 1, nodes)[1]
    /\ idx' = LoopNext("d_drain", idx + 1, nodes)[2]
    /\ UNCHANGED <<frame, cluster, op, data, deadline, nodes, diags, respState>>

Next ==
    \/ CreateBegin
    \/ CreateListError
    \/ CreateListOk
    \/ CreateSleep
    \/ CreateTimedOut
    \/ NodeConditionChange
    \/ DeleteBegin
    \/ DeleteListError
    \/ DeleteListOk
    \/ DeleteCordonOk
    \/ DeleteCordonError
    \/ DeleteDrainStart
    \/ DeleteDrainOk
    \/ DeleteDrainError
    \/ DeleteSleep

Spec == Init /\ [][Next]_vars

(* --------------------------- reading the log --------------------------- *)
\* the entries of one kind, in order
Events(ev) == SelectSeq(log, LAMBDA e : e.ev = ev)

NodesOf(es) == [i \in 1..Len(es) |-> es[i].node]

\* nodes whose cordon succeeded, nodes whose drain was started, nodes whose
\* drain succeeded, each in call order
Cordoned == NodesOf(SelectSeq(log, LAMBDA e : e.ev = "cordon" /\ e.ok))
CordonCalls == NodesOf(Events("cordon"))
DrainStarted == NodesOf(Events("drain_start"))
Drained == NodesOf(SelectSeq(log, LAMBDA e : e.ev = "drain_end" /\ e.ok))

Range(f) == { f[i] : i \in DOMAIN f }

Last(q) == q[Len(q)]

\* the outcomes of the two handlers
Finished(o) == op = o /\ pc = "done"
Succeeded(o) == Finished(o) /\ diags = <<>>
Failed(o) == Finished(o) /\ diags # <<>>
TimedOut ==
    /\ Failed("Create")
    /\ Last(diags).summary = "Error waiting for nodes to be ready"
AccessFailure(o) ==
    /\ Failed(o)
    /\ Len(diags) = 1
    /\ diags[1].strs = <<data.node_pool_name, "failed to list nodes">>
Satisfied == Succeeded("Create") /\ respState = <<data>>

(* ----------------------- nodes joining the pool ---------------------- *)
\* the cluster gives a node the pool's label while Delete is past its
\* listNodes call (a node pool that scales up during the teardown)
NodeJoinsPool ==
    /\ op = "Delete" /\ pc \notin {"d_list", "done"}
    /\ \E n \in Nodes :
        /\ labels[n] # DeleteLabelValue(data)
        /\ labels' = [labels EXCEPT ![n] = DeleteLabelValue(data)]
    /\ UNCHANGED <<frame, conds, unschedulable, op, pc, data, now, deadline, nodes,
                   idx, log, diags, respState>>

NextJoin ==
    \/ NodeJoinsPool
    \/ DeleteBegin
    \/ DeleteListError
    \/ DeleteListOk
    \/ DeleteCordonOk
    \/ DeleteCordonError
    \/ DeleteDrainStart
    \/ DeleteDrainOk
    \/ DeleteDrainError
    \/ DeleteSleep

SpecJoin == Init /\ [][NextJoin]_vars

(* ------------------------------ progress ----------------------------- *)
\* the steps of the handlers: the goroutine serving a request keeps
\* running, every cluster call it makes returns and every sleep ends
HandlerStep ==
    \/ CreateBegin
    \/ CreateListError
    \/ CreateListOk
    \/ CreateSleep
    \/ CreateTimedOut
    \/ DeleteBegin
    \/ DeleteListError
    \/ DeleteListOk
    \/ DeleteCordonOk
    \/ DeleteCordonError
    \/ DeleteDrainStart
    \/ DeleteDrainOk
    \/ DeleteDrainError
    \/ DeleteSleep

\* Spec with a handler that is never suspended for ever
SpecLive == Init /\ [][Next]_vars /\ WF_vars(HandlerStep)

(* ------------------------- durationValidator ------------------------- *)
\* the four constructors; a nil *time.Duration is <<>>, a set one is <<d>>
Duration == [minDuration |-> <<>>, maxDuration |-> <<>>]
MinDuration(min) == [minDuration |-> <<min>>, maxDuration |-> <<>>]
MaxDuration(max) == [minDuration |-> <<>>, maxDuration |-> <<max>>]
DurationInRange(min, max) == [minDuration |-> <<min>>, maxDuration |-> <<max>>]

Validators ==
    {Duration}
        \cup { MinDuration(m) : m \in 0..MaxLimit }
        \cup { MaxDuration(m) : m \in 0..MaxLimit }
        \cup { DurationInRange(m, n) : m, n \in 0..MaxLimit }

\* request.ConfigValue: null, unknown, or a string "<n><unit>" with a
\* unit time.ParseDuration knows ("s", "m") or not ("x"), n also negative
ConfigValues ==
    { [state |-> "null", s |-> [n |-> 0, unit |-> ""]],
      [state |-> "unknown", s |-> [n |-> 0, unit |-> ""]] }
        \cup { [state |-> "known", s |-> [n |-> n, unit |-> u]] :
                 n \in (-1)..MaxNumber, u \in {"s", "m", "x"} }

\* err != nil of time.ParseDuration
ParseError(s) == s.unit \notin {"s", "m"}

\* diag.NewAttributeErrorDiagnostic of the validator
AttributeError(fmt, strs) ==
    ErrorDiag("Invalid Attribute Format", fmt, <<>>, strs)

\* the validator has returned with the diagnostics ds
Returned(ds) == [panic |-> FALSE, diags |-> ds]

\* (*time.Duration).String() on pointer p: a nil pointer is dereferenced,
\* which panics
DurationString(p, ds) ==
    IF p = <<>> THEN [panic |-> TRUE, diags |-> <<>>] ELSE Returned(ds)

\* durationValidator.ValidateString
ValidateString(v, value) ==
    IF value.state \in {"null", "unknown"} THEN Returned(<<>>)
    ELSE IF ParseError(value.s)
    THEN Returned(<<AttributeError("Attribute %s is not a duration, got: %s",
                                  <<"path", "value">>)>>)
    ELSE IF v.minDuration # <<>> /\ ParseDuration(value.s) < v.minDuration[1]
    THEN DurationString(v.minDuration,
            <<AttributeError(
                "Attribute %s is smaller than minimum allowed duration %s, got: %s",
                <<"path", "minDuration", "value">>)>>)
    ELSE IF v.maxDuration # <<>> /\ ParseDuration(value.s) > v.maxDuration[1]
    THEN DurationString(v.minDuration,
            <<AttributeError(
                "Attribute %s is greater than maximum allowed duration %s, got: %s",
                <<"path", "minDuration", "value">>)>>)
    ELSE Returned(<<>>)

InitValidate ==
    /\ labels = [n \in Nodes |-> "pool-a"]
    /\ conds = [n \in Nodes |-> <<>>]
    /\ unschedulable = {}
    /\ Idle
    /\ ctx = Background
    /\ peer = NoPeer
    /\ arg \in [v : Validators, value : ConfigValues]
    /\ ret = <<>>

\* the framework validates one attribute value
Validate ==
    /\ ret = <<>>
    /\ ret' = <<ValidateString(arg.v, arg.value)>>
    /\ UNCHANGED <<cluster, op, pc, data, now, deadline, nodes, idx, log, diags,
                   respState, ctx, peer, arg>>

NextValidate == Validate

SpecValidate == InitValidate /\ [][NextValidate]_vars

(* --------------------------- Read and Update ------------------------- *)
\* resource data Terraform can hold for a pool
StoredStates ==
    { [node_pool_name |-> "pool-a", node_selector_key |-> SelectorKey,
       node_selector_value |-> NullString,
       min_ready_nodes |-> m, ready_timeout |-> Seconds(t),
       drain_timeout |-> Seconds(dt), drain_wait |-> Seconds(w)] :
        m \in 1..MaxMinReady, t \in 0..MaxReadyTimeout,
        dt \in 0..MaxDrainTimeout, w \in 0..MaxDrainWait }

\* a provider whose resource already exists: `arg` is the state Terraform
\* has stored for it
InitStored ==
    /\ labels \in [Nodes -> PoolNames]
    /\ conds = [n \in Nodes |-> <<>>]
    /\ unschedulable = {}
    /\ Idle
    /\ ctx = Background
    /\ peer = NoPeer
    /\ arg \in StoredStates
    /\ ret = <<>>

\* an Update that waits for the pool like Create does
Update_Lists ==
    /\ op = "idle"
    /\ \E plan \in StoredStates :
        /\ plan # arg
        /\ data' = plan
        /\ respState' = <<plan>>
        /\ \E l \in ListNodes(plan.node_selector_key, LabelValue(plan)) :
              log' = Append(log, Event("list", "", TRUE, countReadyNodes(l)))
    /\ op' = "Update"
    /\ pc' = "done"
    /\ UNCHANGED <<frame, cluster, now, deadline, nodes, idx, diags>>

\* Read: the prior state is read and set again
Read ==
    /\ op = "idle"
    /\ data' = arg
    /\ respState' = <<arg>>
    /\ op' = "Read"
    /\ pc' = "done"
    /\ UNCHANGED <<frame, cluster, now, deadline, nodes, idx, log, diags>>

\* Update: the plan is read and set as the state (the plan keeps
\* node_pool_name, whose change replaces the resource instead)
Update ==
    /\ op = "idle"
    /\ \E plan \in StoredStates :
        /\ plan # arg
        /\ data' = plan
        /\ respState' = <<plan>>
    /\ op' = "Update"
    /\ pc' = "done"
    /\ UNCHANGED <<frame, cluster, now, deadline, nodes, idx, log, diags>>

\* the handler has returned: Terraform stores resp.State and the provider
\* waits for the next request
Stored ==
    /\ op \in {"Read", "Update"} /\ pc = "done"
    /\ arg' = respState[1]
    /\ op' = "idle"
    /\ pc' = "idle"
    /\ data' = NoData
    /\ respState' = <<>>
    /\ UNCHANGED <<cluster, now, deadline, nodes, idx, log, diags, ctx, peer, ret>>

NextStored == Read \/ Update \/ Stored

SpecStored == InitStored /\ [][NextStored]_vars

(* ---------------------------- cancellation ---------------------------- *)
\* the caller cancels ctx while a handler runs; `at` and `seen` keep the
\* time and the length of the log at that moment
Cancel ==
    /\ op \in {"Create", "Delete"} /\ pc # "done"
    /\ ~ctx.cancelled
    /\ ctx' = [cancelled |-> TRUE, at |-> now, seen |-> Len(log)]
    /\ UNCHANGED <<cluster, op, pc, data, now, deadline, nodes, idx, log, diags,
                   respState, peer, arg, ret>>

\* the handlers with a caller that may cancel (node conditions stay as they
\* are: the handlers' reaction to ctx does not depend on them)
NextCancel ==
    \/ Cancel
    \/ CreateBegin
    \/ CreateListError
    \/ CreateListOk
    \/ CreateSleep
    \/ CreateTimedOut
    \/ DeleteBegin
    \/ DeleteListError
    \/ DeleteListOk
    \/ DeleteCordonOk
    \/ DeleteCordonError
    \/ DeleteDrainStart
    \/ DeleteDrainOk
    \/ DeleteDrainError
    \/ DeleteSleep

SpecCancel == Init /\ [][NextCancel]_vars

(* ------------------------- Delete called again ----------------------- *)
\* what is left of a Delete that failed: its data, the nodes it cordoned
\* and the call that failed
Outcome ==
    [op |-> op, pc |-> pc, data |-> data, cordoned |-> Range(Cordoned),
     failed |-> Last(log).ev]

\* the caller runs Delete once more, from scratch and on the same prior
\* state, after a Delete that failed
DeleteAgain ==
    /\ Failed("Delete")
    /\ peer = NoPeer
    /\ peer' = <<Outcome>>
    /\ op' = "Delete"
    /\ pc' = "d_list"
    /\ now' = 0
    /\ nodes' = <<>>
    /\ idx' = 0
    /\ log' = <<>>
    /\ diags' = <<>>
    /\ UNCHANGED <<cluster, data, deadline, respState, ctx, arg, ret>>

NextAgain ==
    \/ DeleteBegin
    \/ DeleteListError
    \/ DeleteListOk
    \/ DeleteCordonOk
    \/ DeleteCordonError
    \/ DeleteDrainStart
    \/ DeleteDrainOk
    \/ DeleteDrainError
    \/ DeleteSleep
    \/ DeleteAgain

SpecAgain == Init /\ [][NextAgain]_vars

(* ------------------------ two requests at once ----------------------- *)
\* the variables of the handler that is running: they are locals of
\* Create/Delete, the NodePoolResource itself holds nothing that changes
Handler ==
    [op |-> op, pc |-> pc, data |-> data, now |-> now, deadline |-> deadline,
     nodes |-> nodes, idx |-> idx, log |-> log, diags |-> diags,
     respState |-> respState]

\* a handler that has not been called yet
IdleHandler ==
    [op |-> "idle", pc |-> "idle", data |-> NoData, now |-> 0, deadline |-> 0,
     nodes |-> <<>>, idx |-> 0, log |-> <<>>, diags |-> <<>>,
     respState |-> <<>>]

\* one provider serving two requests: the second one waits in `peer`
InitConcurrent ==
    /\ labels \in [Nodes -> PoolNames]
    /\ conds = [n \in Nodes |-> <<>>]
    /\ unschedulable = {}
    /\ Idle
    /\ ctx = Background
    /\ peer = <<IdleHandler>>
    /\ arg = <<>>
    /\ ret = <<>>

\* a scheduler switch that leaves the listing and the loop index behind, as
\* if they were fields of the shared NodePoolResource
Switch_SharedNodes ==
    /\ peer # NoPeer
    /\ pc # "done"
    /\ peer' = <<[Handler EXCEPT !.nodes = peer[1].nodes, !.idx = peer[1].idx]>>
    /\ op' = peer[1].op
    /\ pc' = peer[1].pc
    /\ data' = peer[1].data
    /\ now' = peer[1].now
    /\ deadline' = peer[1].deadline
    /\ log' = peer[1].log
    /\ diags' = peer[1].diags
    /\ respState' = peer[1].respState
    /\ UNCHANGED <<cluster, nodes, idx, ctx, arg, ret>>

\* the scheduler switches to the other request: the running handler is
\* suspended with all its locals and the other one goes on with its own
Switch ==
    /\ peer # NoPeer
    /\ peer' = <<Handler>>
    /\ op' = peer[1].op
    /\ pc' = peer[1].pc
    /\ data' = peer[1].data
    /\ now' = peer[1].now
    /\ deadline' = peer[1].deadline
    /\ nodes' = peer[1].nodes
    /\ idx' = peer[1].idx
    /\ log' = peer[1].log
    /\ diags' = peer[1].diags
    /\ respState' = peer[1].respState
    /\ UNCHANGED <<cluster, ctx, arg, ret>>

\* Delete for a pool the other request does not work on (a prior state
\* without a pause between the drains)
DeleteBeginPool ==
    /\ op = "idle"
    /\ \E d \in DeleteStates, p \in PoolNames :
        /\ p # peer[1].data.node_pool_name
        /\ d.drain_wait = Seconds(0)
        /\ d.drain_timeout = Seconds(MaxDrainTimeout)
        /\ data' = [d EXCEPT !.node_pool_name = p]
    /\ op' = "Delete"
    /\ pc' = "d_list"
    /\ UNCHANGED <<frame, cluster, now, deadline, nodes, idx, log, diags, respState>>

\* (Create only reads the cluster, with one List call per poll; the requests
\* that change nodes are the Deletes)
NextConcurrent ==
    \/ Switch
    \/ DeleteBeginPool
    \/ DeleteListError
    \/ DeleteListOk
    \/ DeleteCordonOk
    \/ DeleteCordonError
    \/ DeleteDrainStart
    \/ DeleteDrainOk
    \/ DeleteDrainError
    \/ DeleteSleep

SpecConcurrent == InitConcurrent /\ [][NextConcurrent]_vars

(* --------------------------- countReadyNodes ------------------------- *)
\* Status.Conditions a node can have: at most one entry per type, the Ready
\* entry True, False, Unknown or missing, before or after other entries
CountConditions ==
    { <<>>,
      << [Type |-> "Ready", Status |-> "True"] >>,
      << [Type |-> "Ready", Status |-> "False"] >>,
      << [Type |-> "Ready", Status |-> "Unknown"] >>,
      << [Type |-> "MemoryPressure", Status |-> "True"] >>,
      << [Type |-> "MemoryPressure", Status |-> "True"],
         [Type |-> "Ready", Status |-> "True"] >>,
      << [Type |-> "Ready", Status |-> "False"],
         [Type |-> "MemoryPressure", Status |-> "True"] >> }

\* the []v1.Node values of up to MaxCountNodes nodes
CountInputs ==
    UNION { { [i \in 1..k |-> [Name |-> "node", Conditions |-> c[i]]] :
                c \in [1..k -> CountConditions] } : k \in 0..MaxCountNodes }

InitCount ==
    /\ labels = [n \in Nodes |-> "pool-a"]
    /\ conds = [n \in Nodes |-> <<>>]
    /\ unschedulable = {}
    /\ Idle
    /\ ctx = Background
    /\ peer = NoPeer
    /\ arg \in CountInputs
    /\ ret = <<>>

\* numReadyNodes := countReadyNodes(nodes)
CountReady ==
    /\ ret = <<>>
    /\ ret' = <<countReadyNodes(arg)>>
    /\ UNCHANGED <<cluster, op, pc, data, now, deadline, nodes, idx, log, diags,
                   respState, ctx, peer, arg>>

NextCount == CountReady

SpecCount == InitCount /\ [][NextCount]_vars

(* ---------------------------- RunNodeDrain --------------------------- *)
\* a drain helper that does not delete pods with emptyDir volumes
drainer_KeepEmptyDir ==
    [IgnoreAllDaemonSets |-> TRUE, DeleteEmptyDirData |-> FALSE, Force |-> FALSE]

\* the drain.Helper Delete builds for every node (Force is not set)
drainer ==
    [IgnoreAllDaemonSets |-> TRUE, DeleteEmptyDirData |-> TRUE, Force |-> FALSE]

\* the pods a node can run: managed by a DaemonSet, by another controller
\* or by none; a mirror pod of a static pod; with an emptyDir volume;
\* finished (phase Succeeded or Failed)
Pods ==
    { p \in [controller : {"none", "ReplicaSet", "DaemonSet"}, mirror : BOOLEAN,
             emptyDir : BOOLEAN, finished : BOOLEAN] :
        p.mirror => p.controller = "none" }

DrainInputs ==
    UNION { [1..k -> Pods] : k \in 0..MaxPods }

\* the helper's pod filters, in the order it applies them; each says
\* "delete", "skip" or "error"
daemonSetFilter(pod) ==
    IF pod.controller # "DaemonSet" THEN "delete"
    ELSE IF pod.finished THEN "delete"
    ELSE IF ~drainer.IgnoreAllDaemonSets THEN "error"
    ELSE "skip"

mirrorPodFilter(pod) ==
    IF pod.mirror THEN "skip" ELSE "delete"

localStorageFilter(pod) ==
    IF ~pod.emptyDir THEN "delete"
    ELSE IF pod.finished THEN "delete"
    ELSE IF ~drainer.DeleteEmptyDirData THEN "error"
    ELSE "delete"

unreplicatedFilter(pod) ==
    IF pod.finished THEN "delete"
    ELSE IF pod.controller # "none" THEN "delete"
    ELSE IF drainer.Force THEN "delete"
    ELSE "error"

\* the first filter that does not say "delete" decides
PodDeleteStatus(pod) ==
    IF daemonSetFilter(pod) # "delete" THEN daemonSetFilter(pod)
    ELSE IF mirrorPodFilter(pod) # "delete" THEN mirrorPodFilter(pod)
    ELSE IF localStorageFilter(pod) # "delete" THEN localStorageFilter(pod)
    ELSE unreplicatedFilter(pod)

InitDrain ==
    /\ labels = [n \in Nodes |-> "pool-a"]
    /\ conds = [n \in Nodes |-> <<>>]
    /\ unschedulable = {}
    /\ Idle
    /\ ctx = Background
    /\ peer = NoPeer
    /\ arg \in DrainInputs
    /\ ret = <<>>

\* drain.RunNodeDrain(drainer, node.Name) on a node running the pods `arg`:
\* an error before anything is removed when a filter says "error";
\* otherwise the pods to delete are evicted, and the call returns nil when
\* all of them are gone, an error when some are still there at the timeout
RunNodeDrain ==
    /\ ret = <<>>
    /\ LET status == [i \in DOMAIN arg |-> PodDeleteStatus(arg[i])]
           errs == { i \in DOMAIN arg : status[i] = "error" }
           kept == { i \in DOMAIN arg : status[i] = "skip" }
       IN  IF errs # {}
           THEN ret' = <<[ok |-> FALSE, errs |-> errs, remaining |-> DOMAIN arg]>>
           ELSE \E stuck \in SUBSET (DOMAIN arg \ kept) :
                    ret' = <<[ok |-> stuck = {}, errs |-> {},
                              remaining |-> kept \cup stuck]>>
    /\ UNCHANGED <<cluster, op, pc, data, now, deadline, nodes, idx, log, diags,
                   respState, ctx, peer, arg>>

NextDrain == RunNodeDrain

SpecDrain == InitDrain /\ [][NextDrain]_vars

(* ------------------------- the label selector ------------------------- *)
\* resource data with every state of node_selector_value: null, unknown, set
SelectorInputs ==
    { [node_pool_name |-> p, node_selector_key |-> k, node_selector_value |-> v,
       min_ready_nodes |-> 1, ready_timeout |-> Seconds(300),
       drain_timeout |-> Seconds(300), drain_wait |-> Seconds(60)] :
        p \in PoolNames, k \in {SelectorKey, "role"},
        v \in {NullString, UnknownString} \cup PoolNames }

InitSelector ==
    /\ labels \in [Nodes -> PoolNames]
    /\ conds = [n \in Nodes |-> <<>>]
    /\ unschedulable = {}
    /\ Idle
    /\ ctx = Background
    /\ peer = NoPeer
    /\ arg \in SelectorInputs
    /\ ret = <<>>

\* the names a listNodes call returns
Listed(labelKey, labelValue) ==
    LET l == CHOOSE l \in ListNodes(labelKey, labelValue) : TRUE
    IN  { l[i].Name : i \in DOMAIN l }

\* Create on data `arg` up to its first listNodes: the selector it sends
\* and the nodes it gets
CreateSelector ==
    /\ \A i \in DOMAIN ret : ret[i].handler # "Create"
    /\ LET labelKey == arg.node_selector_key
           labelValue == LabelValue(arg)
       IN  ret' = Append(ret, [handler |-> "Create",
                               selector |-> LabelSelector(labelKey, labelValue),
                               listed |-> Listed(labelKey, labelValue)])
    /\ UNCHANGED <<cluster, op, pc, data, now, deadline, nodes, idx, log, diags,
                   respState, ctx, peer, arg>>

\* Delete on data `arg` up to its listNodes
DeleteSelector ==
    /\ \A i \in DOMAIN ret : ret[i].handler # "Delete"
    /\ LET labelKey == arg.node_selector_key
           labelValue == DeleteLabelValue(arg)
       IN  ret' = Append(ret, [handler |-> "Delete",
                               selector |-> LabelSelector(labelKey, labelValue),
                               listed |-> Listed(labelKey, labelValue)])
    /\ UNCHANGED <<cluster, op, pc, data, now, deadline, nodes, idx, log, diags,
                   respState, ctx, peer, arg>>

NextSelector == CreateSelector \/ DeleteSelector

SpecSelector == InitSelector /\ [][NextSelector]_vars

(* ------------------------------- claims -------------------------------- *)
\* C1: in a Delete no drain is started before the cordon of every listed
\* node has returned without error.
C1_CordonAllBeforeDrain ==
    \A i \in DOMAIN log :
        log[i].ev = "drain_start" =>
            \A k \in DOMAIN nodes :
                \E j \in 1..(i - 1) :
                    log[j].ev = "cordon" /\ log[j].ok /\ log[j].node = nodes[k]

C1_Witness ==
    /\ op = "Delete" /\ pc = "d_draining"
    /\ Len(nodes) = 3
    /\ Cordoned = nodes

\* C2: a Create that ends without an error has polled, and its last poll
\* returned at least min_ready_nodes ready nodes.
C2_SuccessOnlyOnEnoughReady ==
    Succeeded("Create") =>
        /\ log # <<>>
        /\ Last(log).ev = "list" /\ Last(log).ok
        /\ Last(log).n >= data.min_ready_nodes
        /\ \A i \in 1..(Len(log) - 1) :
              log[i].ev = "list" => log[i].ok /\ log[i].n < data.min_ready_nodes

C2_Witness ==
    /\ Succeeded("Create")
    /\ data.min_ready_nodes = 2
    /\ Len(Events("list")) >= 2

\* C3: the drains of one Delete follow the listing order, which is also the
\* order of the cordons; at most one node is being drained at a time; and a
\* drain starts at least drain_wait after the end of the drain before it.
C3_SequentialDrainWithPause ==
    LET starts == Events("drain_start")
        ends == Events("drain_end")
    IN  /\ DrainStarted = SubSeq(nodes, 1, Len(DrainStarted))
        /\ CordonCalls = SubSeq(nodes, 1, Len(CordonCalls))
        /\ Len(starts) - Len(ends) \in {0, 1}
        /\ (pc = "d_draining") = (Len(starts) - Len(ends) = 1)
        /\ \A k \in 2..Len(starts) :
              /\ ends[k - 1].ok
              /\ starts[k].at - ends[k - 1].at >= ParseDuration(data.drain_wait)

C3_Witness ==
    /\ op = "Delete"
    /\ Len(DrainStarted) = 3
    /\ ParseDuration(data.drain_wait) >= 1
    /\ nodes[1] # "n1"

\* C4: when the drain of the k-th listed node fails, Delete ends there with
\* an error: the k-1 nodes before it were each drained once, and no drain
\* was started on a later node.
C4_DrainErrorStops ==
    \A i \in DOMAIN log :
        (log[i].ev = "drain_end" /\ ~log[i].ok) =>
            /\ i = Len(log)
            /\ Failed("Delete")
            /\ Len(diags) = 1
            /\ log[i].node = nodes[idx]
            /\ Drained = SubSeq(nodes, 1, idx - 1)
            /\ DrainStarted = SubSeq(nodes, 1, idx)

C4_Witness ==
    /\ Failed("Delete")
    /\ Len(nodes) = 3
    /\ idx = 2
    /\ Last(log).ev = "drain_end"

\* C5: when a cordon fails, Delete ends there with an error: no later node
\* is cordoned, no node is drained, and the nodes cordoned before it are
\* still unschedulable.
C5_CordonErrorStops ==
    /\ \A i \in DOMAIN log :
        (log[i].ev = "cordon" /\ ~log[i].ok) =>
            /\ i = Len(log)
            /\ Failed("Delete")
            /\ Len(diags) = 1
            /\ CordonCalls = SubSeq(nodes, 1, idx)
            /\ Cordoned = SubSeq(nodes, 1, idx - 1)
            /\ DrainStarted = <<>>
    /\ Range(Cordoned) \subseteq unschedulable

C5_Witness ==
    /\ Failed("Delete")
    /\ Len(nodes) = 3
    /\ idx = 3
    /\ Last(log).ev = "cordon"
    /\ Range(Cordoned) # {}

\* the ready count of the pool's nodes as the cluster has them now
ClusterReadyCount ==
    countReadyNodes(CHOOSE l \in ListNodes(data.node_selector_key, LabelValue(data)) : TRUE)

\* C6: for every min_ready_nodes >= 1 and ready_timeout >= 0, a Create whose
\* first tick finds at least min_ready_nodes ready nodes in the pool ends
\* Satisfied, without having slept.
C6_FirstTickSatisfied ==
    /\ (/\ Finished("Create")
        /\ Events("sleep") = <<>>
        /\ ~AccessFailure("Create")
        /\ ClusterReadyCount >= data.min_ready_nodes) => Satisfied
    /\ (/\ Finished("Create")
        /\ Events("list") # <<>>
        /\ Events("list")[1].ok
        /\ Events("list")[1].n >= data.min_ready_nodes)
            => (Satisfied /\ Events("sleep") = <<>>)

C8_ListErrorIsTerminal ==
    \A i \in DOMAIN log :
        (op = "Create" /\ log[i].ev = "list" /\ ~log[i].ok) =>
            /\ i = Len(log)
            /\ AccessFailure("Create")
            /\ ~TimedOut
            /\ respState = <<>>

C8_Witness ==
    /\ AccessFailure("Create")
    /\ Len(Events("list")) >= 2
    /\ Events("sleep") # <<>>

\* the node names and other strings the diagnostics carry
Named == UNION { Range(diags[i].strs) : i \in DOMAIN diags }

\* C9: a failed Delete reports the nodes it had cordoned and the nodes it had
\* drained when it failed.
C9_FailureCarriesProgress ==
    Failed("Delete") =>
        /\ Range(Cordoned) \subseteq Named
        /\ Range(Drained) \subseteq Named

\* C10: the TimedOut error of Create carries the pool name, min_ready_nodes
\* and the ready count of the last poll.
C10_TimedOutCarriesCounts ==
    TimedOut =>
        /\ data.node_pool_name \in Range(Last(diags).strs)
        /\ data.min_ready_nodes \in Range(Last(diags).ints)
        /\ Events("list") # <<>> => Last(Events("list")).n \in Range(Last(diags).ints)

\* the phase a Delete diagnostic speaks of, read off its format string
PhaseOf(d) ==
    IF d.fmt = "Could not delete safe node pool, unexpected error listing nodes in pool %s: %s"
    THEN "list"
    ELSE IF d.fmt = "Could not delete safe node pool, unexpected error cordoning node %s: %s"
    THEN "cordon"
    ELSE IF d.fmt = "Could not delete safe node pool, unexpected error draining node %s: %s"
    THEN "drain_end"
    ELSE "none"

\* C11: a failed Delete carries one diagnostic; it tells the phase that
\* failed (listing, cordon or drain) and, for a cordon or a drain, names the
\* node of the failed call, which is the first listed node whose call failed.
C11_FailureNamesPhaseAndNode ==
    Failed("Delete") =>
        /\ Len(diags) = 1
        /\ log # <<>>
        /\ ~Last(log).ok
        /\ \A j \in 1..(Len(log) - 1) : log[j].ok
        /\ PhaseOf(diags[1]) = Last(log).ev
        /\ Last(log).ev = "list" => diags[1].strs[1] = data.node_pool_name
        /\ Last(log).ev = "cordon" =>
              /\ diags[1].strs[1] = Last(log).node
              /\ Last(log).node = nodes[Len(Cordoned) + 1]
        /\ Last(log).ev = "drain_end" =>
              /\ diags[1].strs[1] = Last(log).node
              /\ Last(log).node = nodes[Len(Drained) + 1]

C11_Witness ==
    /\ Failed("Delete")
    /\ Len(nodes) = 3
    /\ PhaseOf(diags[1]) = "drain_end"
    /\ diags[1].strs[1] = nodes[3]

NoDup(q) == \A i, j \in DOMAIN q : i # j => q[i] # q[j]

\* C12: nothing is retried inside one invocation. In a Delete each node is
\* cordoned at most once and its drain started at most once, and listNodes
\* is called once; a failed call is the last call of its invocation, the
\* invocation has ended when an error is reported, and once an error (list,
\* cordon, drain or readiness timeout) is reported nothing more is called.
C12_NoRetry ==
    /\ [](/\ NoDup(CordonCalls)
          /\ NoDup(DrainStarted)
          /\ op = "Delete" => Len(Events("list")) = (IF pc = "d_list" THEN 0 ELSE 1)
          /\ \A j \in DOMAIN log : ~log[j].ok => j = Len(log)
          /\ (diags # <<>> \/ (log # <<>> /\ ~Last(log).ok)) => pc = "done")
    /\ [][diags # <<>> => log' = log]_vars

C12_Witness ==
    /\ Failed("Delete")
    /\ Len(nodes) = 3
    /\ Len(log) = 2
    /\ Last(log).ev = "cordon"

\* C13: once ctx is cancelled the handler finishes no sleep (poll interval
\* or drain_wait pause) and calls no further cordon or drain.
C13_CancelAbortsPromptly ==
    ctx.cancelled =>
        \A i \in (ctx.seen + 1)..Len(log) :
            log[i].ev \notin {"sleep", "cordon", "drain_start"}

\* C14: no drain of a node runs longer than drain_timeout, whatever value
\* >= 0 drain_timeout has.
C14_DrainBoundedByTimeout ==
    \A i \in 2..Len(log) :
        log[i].ev = "drain_end" =>
            log[i].at - log[i - 1].at <= ParseDuration(data.drain_timeout)

\* C15: the selector a handler sends is node_selector_key "=" V, where V is
\* node_selector_value when that is set (not null, not unknown) and
\* node_pool_name otherwise; the nodes found are those labelled V; Create
\* and Delete of the same data send the same selector.
C15_SelectorResolution ==
    LET isSet == arg.node_selector_value \notin {NullString, UnknownString}
        V == IF isSet THEN arg.node_selector_value ELSE arg.node_pool_name
    IN  /\ \A i \in DOMAIN ret :
              /\ ret[i].selector = <<arg.node_selector_key, "=", V>>
              /\ ret[i].listed =
                    { n \in Nodes : arg.node_selector_key = SelectorKey /\ labels[n] = V }
        /\ \A i, j \in DOMAIN ret : ret[i].selector = ret[j].selector

C15_Witness ==
    /\ Len(ret) = 2
    /\ ret[1].handler = "Delete" /\ ret[2].handler = "Create"
    /\ arg.node_pool_name = "pool-a" /\ arg.node_selector_value = "pool-b"
    /\ Cardinality(ret[2].listed) = 2

\* C16: cordon is idempotent. A node whose cordon succeeded is
\* unschedulable from then on; and in a Delete run again after a failed
\* Delete, the cordon of every node the first one had cordoned succeeds and
\* all those nodes stay unschedulable.
C16_CordonIdempotent ==
    /\ Range(Cordoned) \subseteq unschedulable
    /\ peer # NoPeer =>
          /\ peer[1].cordoned \subseteq unschedulable
          /\ \A i \in DOMAIN log :
                log[i].ev = "cordon" /\ log[i].node \in peer[1].cordoned => log[i].ok

C16_Witness ==
    /\ peer # NoPeer
    /\ peer[1].failed = "drain_end"
    /\ op = "Delete" /\ pc = "d_drain"
    /\ Len(nodes) = 3
    /\ Range(Cordoned) = peer[1].cordoned

\* the calls of one request that act on a node
NodeCalls(h) ==
    SelectSeq(h.log, LAMBDA e : e.ev \in {"cordon", "drain_start", "drain_end"})

\* a request touches only nodes of its own listing, which are nodes of its
\* own pool
OwnNodesOnly(h) ==
    /\ \A i \in DOMAIN h.nodes : labels[h.nodes[i]] = h.data.node_pool_name
    /\ \A i \in DOMAIN NodeCalls(h) :
          \E k \in DOMAIN h.nodes : NodeCalls(h)[i].node = h.nodes[k]

\* a request starts no drain before it has cordoned every node it listed
CordonAllBeforeDrainOf(h) ==
    \A i \in DOMAIN h.log :
        h.log[i].ev = "drain_start" =>
            \A k \in DOMAIN h.nodes :
                \E j \in 1..(i - 1) :
                    h.log[j].ev = "cordon" /\ h.log[j].ok /\ h.log[j].node = h.nodes[k]

\* a request drains its nodes in listing order, one at a time
OneAtATimeOf(h) ==
    LET starts == SelectSeq(h.log, LAMBDA e : e.ev = "drain_start")
        ends == SelectSeq(h.log, LAMBDA e : e.ev = "drain_end")
    IN  /\ Len(starts) - Len(ends) \in {0, 1}
        /\ \A k \in DOMAIN starts : starts[k].node = h.nodes[k]
        /\ \A k \in DOMAIN ends : ends[k].node = h.nodes[k]
        /\ \A k \in 2..Len(starts) : ends[k - 1].ok

\* C17: of two requests served at once for different pools, under every
\* interleaving, each cordons and drains only nodes of its own listing (so
\* no node is touched by both), and each on its own cordons all its nodes
\* before it drains and drains one node at a time.
C17_NoInterference ==
    /\ \A h \in {Handler, peer[1]} :
          /\ OwnNodesOnly(h)
          /\ CordonAllBeforeDrainOf(h)
          /\ OneAtATimeOf(h)
    /\ \A i \in DOMAIN NodeCalls(Handler), j \in DOMAIN NodeCalls(peer[1]) :
          NodeCalls(Handler)[i].node # NodeCalls(peer[1])[j].node

C17_Witness ==
    /\ op = "Delete" /\ pc = "d_draining"
    /\ Len(nodes) = 2
    /\ peer[1].op = "Delete" /\ peer[1].pc = "d_cordon"
    /\ Len(peer[1].nodes) = 1
    /\ Len(peer[1].log) = 1

\* C18: each tick lists first, then tests the ready count, then the
\* deadline: a TimedOut comes straight after a listing of its own tick, and
\* that listing showed fewer than min_ready_nodes ready nodes.
C18_TimedOutAfterFreshListing ==
    TimedOut =>
        /\ log # <<>>
        /\ Last(log).ev = "list"
        /\ Last(log).ok
        /\ Last(log).n < data.min_ready_nodes

\* a node has a condition entry of type Ready with status True
HasReadyTrue(node) ==
    \E i \in DOMAIN node.Conditions :
        node.Conditions[i].Type = "Ready" /\ node.Conditions[i].Status = "True"

\* C19: countReadyNodes(nodes) is the number of nodes that have a Ready
\* entry with status True (a missing, False or Unknown Ready entry does not
\* count); it lies between 0 and len(nodes); and it is the same for every
\* permutation of nodes.
C19_CountReadyNodes ==
    ret # <<>> =>
        /\ ret[1] = Cardinality({ i \in DOMAIN arg : HasReadyTrue(arg[i]) })
        /\ 0 <= ret[1] /\ ret[1] <= Len(arg)
        /\ \A p \in Perms(DOMAIN arg) :
              countReadyNodes([i \in DOMAIN arg |-> arg[p[i]]]) = ret[1]

C19_Witness ==
    /\ ret = <<1>>
    /\ Len(arg) = 3
    /\ arg[1].Conditions = << [Type |-> "Ready", Status |-> "Unknown"] >>
    /\ arg[2].Conditions = <<>>
    /\ HasReadyTrue(arg[3]) /\ Len(arg[3].Conditions) = 2

OwnCalls == SelectSeq(log, LAMBDA e : e.ev \in {"cordon", "drain_start", "drain_end"})

\* C21: Delete calls listNodes once, as its first call, and works on that
\* listing only: every cordon and drain is of a listed node, so a node that
\* gets the pool label after the listing is neither cordoned nor drained;
\* with an empty listing Delete succeeds with no cordon, drain or pause; and
\* when the listing fails Delete fails with nothing cordoned or drained.
C21_WorksOnOneListing ==
    op = "Delete" =>
        /\ Len(Events("list")) = (IF pc = "d_list" THEN 0 ELSE 1)
        /\ log # <<>> => log[1].ev = "list"
        /\ \A i \in DOMAIN OwnCalls : OwnCalls[i].node \in Range(nodes)
        /\ unschedulable \subseteq Range(nodes)
        /\ (log # <<>> /\ log[1].ok) => log[1].n = Len(nodes)
        /\ (log # <<>> /\ log[1].ok /\ log[1].n = 0) =>
              Succeeded("Delete") /\ Len(log) = 1
        /\ (log # <<>> /\ ~log[1].ok) =>
              Failed("Delete") /\ Len(log) = 1 /\ unschedulable = {}

C21_Witness ==
    /\ Succeeded("Delete")
    /\ Len(nodes) = 2
    /\ \E n \in Nodes :
          /\ labels[n] = DeleteLabelValue(data)
          /\ n \notin Range(nodes)
          /\ n \notin unschedulable

\* C22: Create sets resp.State, to the planned data, exactly when it ends
\* with enough ready nodes or with the readiness timeout; a Create that
\* ends on a failed listNodes sets no state, and none is set before the end.
C22_StateWrittenUnlessListFails ==
    op = "Create" =>
        /\ data \in CreatePlans
        /\ pc # "done" => respState = <<>>
        /\ pc = "done" =>
              IF Succeeded("Create") \/ TimedOut
              THEN respState = <<data>>
              ELSE /\ respState = <<>>
                   /\ AccessFailure("Create")
                   /\ ~Last(log).ok

C22_Witness ==
    /\ TimedOut
    /\ respState = <<data>>
    /\ Len(Events("list")) = 2

\* C23: in a Delete a pause of drain_wait follows every drain that
\* returned without error, the last one included, and nothing follows a
\* failed drain: a Delete that succeeds over n nodes has made n pauses and
\* ends after the last of them, and one whose drain of the k-th node fails
\* has made k-1 pauses.
C23_PauseAfterEveryDrainedNode ==
    op = "Delete" =>
        /\ \A i \in DOMAIN log :
              log[i].ev = "sleep" =>
                  /\ i > 1
                  /\ log[i - 1].ev = "drain_end" /\ log[i - 1].ok
                  /\ log[i - 1].node = log[i].node
                  /\ log[i].n = ParseDuration(data.drain_wait)
        /\ \A i \in DOMAIN log :
              (log[i].ev = "drain_end" /\ log[i].ok) =>
                  IF i = Len(log) THEN pc = "d_sleep" ELSE log[i + 1].ev = "sleep"
        /\ \A i \in DOMAIN log :
              (log[i].ev = "drain_end" /\ ~log[i].ok) => i = Len(log)
        /\ Succeeded("Delete") =>
              /\ Len(Events("sleep")) = Len(nodes)
              /\ nodes # <<>> =>
                    /\ Last(log).ev = "sleep"
                    /\ now >= Last(log).at + ParseDuration(data.drain_wait)
        /\ (Failed("Delete") /\ Last(log).ev = "drain_end") =>
              /\ Len(Events("sleep")) = Len(DrainStarted) - 1
              /\ Last(log).node = nodes[Len(Events("sleep")) + 1]

C23_Witness ==
    /\ Succeeded("Delete")
    /\ Len(nodes) = 3
    /\ Len(Events("sleep")) = 3
    /\ ParseDuration(data.drain_wait) = 2

\* C24: Read and Update make no cluster call and no wait, however many of
\* them run one after the other: nothing is listed, cordoned or drained, no
\* time is spent and no error is reported. Read sets the state to the prior
\* state, Update sets it to the plan, also when the plan changes
\* min_ready_nodes or a timeout.
C24_ReadUpdateTouchNothing ==
    /\ log = <<>>
    /\ unschedulable = {}
    /\ now = 0
    /\ diags = <<>>
    /\ op = "Read" => respState = <<arg>>
    /\ op = "Update" => respState = <<data>> /\ data \in StoredStates /\ data # arg

C24_Witness ==
    /\ op = "Update" /\ pc = "done"
    /\ arg.min_ready_nodes = 2 /\ data.min_ready_nodes = 1
    /\ arg.ready_timeout # data.ready_timeout
    /\ respState = <<data>>

\* the number of conditions of a list that hold
HowMany(bs) == Cardinality({ i \in DOMAIN bs : bs[i] })

\* C25: every request ends: a Create ends as exactly one of Satisfied,
\* TimedOut and access failure, a Delete ends as success or with a single
\* error, and nothing happens after the end.
C25_EveryRequestEnds ==
    /\ [](op # "idle" => <>(pc = "done"))
    /\ [](Finished("Create") =>
            HowMany(<<Satisfied, TimedOut /\ Len(diags) = 1, AccessFailure("Create")>>) = 1)
    /\ [](Finished("Delete") => Succeeded("Delete") \/ Len(diags) = 1)
    /\ [][pc # "done"]_vars

C25_Witness ==
    /\ TimedOut
    /\ ParseDuration(data.ready_timeout) = 2
    /\ Len(Events("sleep")) = 2
    /\ ClusterReadyCount >= data.min_ready_nodes

\* the value is known and not a duration, or below the validator's minimum,
\* or above its maximum
Invalid(v, value) ==
    /\ value.state = "known"
    /\ \/ ParseError(value.s)
       \/ v.minDuration # <<>> /\ ParseDuration(value.s) < v.minDuration[1]
       \/ v.maxDuration # <<>> /\ ParseDuration(value.s) > v.maxDuration[1]

\* C26: the validator returns normally on every value, with one error
\* diagnostic when the value is known and not a duration, below the minimum
\* or above the maximum, and with none otherwise; for validators built by
\* Duration, MinDuration, MaxDuration and DurationInRange alike.
C26_ValidatorCompletes ==
    ret # <<>> =>
        /\ ~ret[1].panic
        /\ Len(ret[1].diags) = (IF Invalid(arg.v, arg.value) THEN 1 ELSE 0)

====
